---- MODULE Spec2Model ----
(***************************************************************************)
(* Dataset Destroyer (datasetDestroyer.py): the degradation operators      *)
(* apply_blur, apply_noise, apply_compression and apply_scale, the         *)
(* per-image driver process_image with the batch loop, and the two-process *)
(* ffmpeg round trip of the video-codec compression path.                  *)
(*                                                                         *)
(* An image is a record [shape, px]: shape is <<height, width, 3>> and px  *)
(* is the value of one tracked uint8 sample.  cv2.imread's None is the     *)
(* record with the empty shape.  A float is modelled as a fixed-point      *)
(* number: the integer a stands for the float a / Q.  A description string *)
(* is modelled by its leading word (the algorithm name), '' by "".         *)
(***************************************************************************)
EXTENDS Integers, Sequences, FiniteSets, TLC

VARIABLES
    config,             \* the values read from config.ini (lines 18-40)
    degradations,       \* the configured degradation list (line 21)
    image_paths,        \* the files found by os.walk: what imread returns for each
    path_index,         \* position of the batch loop in image_paths
    pc,                 \* position inside process_image / the batch loop
    image,              \* process_image's local `image`
    degradation_order,  \* process_image's local `degradation_order`
    order,              \* 1-based position of the for loop over degradation_order
    text,               \* process_image's local `text` (Unbound before any operator ran)
    all_text,           \* process_image's local `all_text`
    files,              \* log of cv2.imwrite calls that wrote a file: indices into image_paths
    calls,              \* operator calls made for the current image, in order
    ret,                \* result of the operator call under study
    bpc,                \* position of apply_compression inside the video-codec path
    process1,           \* the ffmpeg encoder subprocess and its two pipes
    process2,           \* the ffmpeg decoder subprocess and its two pipes
    written,            \* bytes of image.tobytes() accepted so far by process1.stdin.write
    captured,           \* bytes returned so far to process1.stdout.read()
    fed,                \* bytes of communicate's input written so far to process2.stdin
    out                 \* bytes collected so far by communicate from process2.stdout

vars == <<config, degradations, image_paths, path_index, pc, image, degradation_order,
          order, text, all_text, files, calls, ret, bpc, process1, process2,
          written, captured, fed, out>>

pipeVars == <<degradations, image_paths, path_index, degradation_order, order, text,
              all_text, files, calls>>

bridgeVars == <<bpc, process1, process2, written, captured, fed, out>>

----------------------------------------------------------------------------
(* Bounds of the model *)

Q == 2                  \* floats are the multiples of 1/Q
MaxDim == 3             \* image heights and widths are 1..MaxDim
BlurSpan == 2           \* blur range bounds are drawn from -BlurSpan..BlurSpan
NoiseSpan == 2          \* noise range bounds are drawn from 0..NoiseSpan
GaussWidth == 2         \* normal draws are cut at GaussWidth standard deviations
MaxFactor == 4          \* size_factor and scale range bounds are 0..MaxFactor/Q
MaxDegradations == 2    \* length of the configured degradation list
MaxImages == 2          \* number of files in the input folder
PipeCap == 1            \* capacity in bytes of every OS pipe
MaxEncOut == 2          \* the encoder emits 0..MaxEncOut bytes
MaxDecExtra == 1        \* the decoder emits 0..height*width*3+MaxDecExtra bytes

UINT8_MAX == 255

----------------------------------------------------------------------------
(* Values *)

None == [shape |-> <<>>, px |-> 0]

Unbound == "<unbound>"

Image(h, w, px) == [shape |-> <<h, w, 3>>, px |-> px]

Samples == {0, 100, UINT8_MAX}

Range(s) == {s[i] : i \in 1..Len(s)}

Min(a, b) == IF a <= b THEN a ELSE b

Max(a, b) == IF a >= b THEN a ELSE b

\* Python's int() on the float a / q: truncation toward zero
int(a, q) == IF a >= 0 THEN a \div q ELSE -((-a) \div q)

\* random.randint(lo, hi): both bounds included; empty range raises ValueError
randint(range) == range[1]..range[2]

\* np.random.uniform(lo, hi) on fixed-point bounds: lo itself when lo = hi
uniform(lo, hi) == IF lo < hi THEN lo..(hi - 1) ELSE {lo}

\* random.choice on a list, or its first element when the section's randomize is off
Choose(algorithms, randomize) == IF randomize THEN Range(algorithms) ELSE {algorithms[1]}

\* an operator's result: exc is "" when the call returned
Return(img, txt, alg, a) ==
    [exc |-> "", image |-> img, text |-> txt, algorithm |-> alg, args |-> a]

Raise(e, alg, a) ==
    [exc |-> e, image |-> None, text |-> "", algorithm |-> alg, args |-> a]

\* a filter whose output sample depends on the neighbouring samples
Filtered(img) == {[img EXCEPT !.px = p] : p \in Samples \cup {img.px}}

----------------------------------------------------------------------------
(* apply_blur *)

BlurAlgorithms == {"average", "gaussian", "isotropic", "anisotropic"}

\* `randint(*blur_range) + 1`: a slip that makes odd sizes even
PlusOne(k) == k + 1

\* `randint(*blur_range) | 1` on a two's complement integer
BitOr1(k) == IF k % 2 = 1 THEN k ELSE k + 1

\* 2 * int(4 * sigma + 0.5) + 1, with 4 * sigma + 0.5 = (8 * sigma + 1) / 2
KsizeOfSigma(sigma) == 2 * int(8 * sigma + 1, 2) + 1

\* cv2.blur / cv2.GaussianBlur: an empty source or a kernel size below 1 fails
cv2_filter(img, kx, ky, alg) ==
    IF img = None \/ kx < 1 \/ ky < 1
    THEN {Raise("cv2.error", alg, <<kx, ky>>)}
    ELSE {Return(i, alg, alg, <<kx, ky>>) : i \in Filtered(img)}

apply_blur(img) ==
    UNION { CASE algorithm = "average" ->
                 UNION {cv2_filter(img, k, k, algorithm) : k \in randint(config.blur_range)}
              [] algorithm = "gaussian" ->
                 UNION {cv2_filter(img, BitOr1(k), BitOr1(k), algorithm) :
                            k \in randint(config.blur_range)}
              [] algorithm = "isotropic" ->
                 UNION {cv2_filter(img, KsizeOfSigma(s), KsizeOfSigma(s), algorithm) :
                            s \in randint(config.blur_range)}
              [] algorithm = "anisotropic" ->
                 UNION {cv2_filter(img, KsizeOfSigma(sx), KsizeOfSigma(sy), algorithm) :
                            sx \in randint(config.blur_range),
                            sy \in randint(config.blur_range)}
              [] OTHER -> {Return(img, "", algorithm, <<>>)}
          : algorithm \in Choose(config.blur_algorithms, config.blur_randomize) }

----------------------------------------------------------------------------
(* apply_noise *)

NoiseAlgorithms == {"uniform", "gaussian", "color", "gray"}

\* ndarray.astype(uint8) of the float a / Q: truncation; a truncated value
\* outside 0..255 is undefined in C, and builds either wrap or saturate
astype_uint8(a) ==
    LET t == int(a, Q)
    IN  IF 0 <= t /\ t <= UINT8_MAX THEN {t}
        ELSE {t % (UINT8_MAX + 1), IF t < 0 THEN 0 ELSE UINT8_MAX}

\* cv2.add on two uint8 arrays: saturating sum
cv2_add(a, b) == Min(UINT8_MAX, a + b)

\* numpy `image += noise` on uint8 arrays: sum modulo 256
iadd_uint8(a, b) == (a + b) % (UINT8_MAX + 1)

\* np.random.normal(0, intensity) cut at GaussWidth standard deviations
normal(intensity) == (-GaussWidth * intensity * Q)..(GaussWidth * intensity * Q)

\* cv2.randn into a uint8 array: each draw is saturate_cast to 0..255
cv2_randn(s) == {Max(0, Min(UINT8_MAX, int(a, Q))) : a \in normal(s)}

\* noise.astype(image.dtype) followed by cv2.add; args = <<draw, converted draw>>
AddNoise(img, draws, alg) ==
    IF img = None THEN {Raise("AttributeError", alg, <<>>)}
    ELSE UNION {{Return([img EXCEPT !.px = cv2_add(img.px, v)], alg, alg, <<n, v>>) :
                     v \in astype_uint8(n)} : n \in draws}

\* cv2.randn followed by the in-place `image += noise`
IaddNoise(img, sigmas, alg) ==
    IF img = None THEN {Raise("AttributeError", alg, <<>>)}
    ELSE {Return([img EXCEPT !.px = iadd_uint8(img.px, v)], alg, alg, <<v>>) :
              v \in UNION {cv2_randn(s) : s \in sigmas}}

apply_noise(img) ==
    UNION { CASE algorithm = "uniform" ->
                 UNION {AddNoise(img, uniform(-i * Q, i * Q) \cup {i * Q}, algorithm) :
                            i \in randint(config.noise_range)}
              [] algorithm = "gaussian" ->
                 UNION {AddNoise(img, normal(i), algorithm) :
                            i \in randint(config.noise_range)}
              [] algorithm = "color" ->
                 IaddNoise(img, randint(config.noise_range), algorithm)
              [] algorithm = "gray" ->
                 IaddNoise(img, randint(config.noise_range), algorithm)
              [] OTHER -> {Return(img, "", algorithm, <<>>)}
          : algorithm \in Choose(config.noise_algorithms, config.noise_randomize) }

----------------------------------------------------------------------------
(* apply_scale *)

\* the keys of interpolation_map
InterpolationMap == {"bicubic", "bilinear", "box", "nearest", "lanczos"}

ScaleAlgorithms == InterpolationMap \cup {"down_up"}

\* cv2.resize called with dsize = (h, w): width and height exchanged
cv2_resize_swapped(img, w, h) ==
    IF img = None \/ w < 1 \/ h < 1 THEN {}
    ELSE {[i EXCEPT !.shape = <<w, h, 3>>] : i \in Filtered(img)}

\* cv2.resize(img, (w, h)): the images it can return; none when it raises
cv2_resize(img, w, h) ==
    IF img = None \/ w < 1 \/ h < 1 THEN {}
    ELSE {[i EXCEPT !.shape = <<h, w, 3>>] : i \in Filtered(img)}

\* the `if algorithm == 'down_up'` branch (lines 231-242)
DownUp(img, h, w, new_h, new_w, txt) ==
    LET list == config.down_up_scale_algorithms
        firsts == IF config.scale_randomize THEN Range(list) ELSE {list[1]}
        lasts == IF config.scale_randomize THEN Range(list) ELSE {list[Len(list)]}
    IN  UNION { IF algorithm1 \notin InterpolationMap
                THEN {Raise("KeyError", "down_up", <<scale_factor>>)}
                ELSE LET mid == cv2_resize(img, int(w * scale_factor, Q),
                                           int(h * scale_factor, Q))
                     IN  IF mid = {}
                         THEN {Raise("cv2.error", "down_up", <<scale_factor>>)}
                         ELSE IF algorithm2 \notin InterpolationMap
                         THEN {Raise("KeyError", "down_up", <<scale_factor>>)}
                         ELSE UNION { IF cv2_resize(m, new_w, new_h) = {}
                                      THEN {Raise("cv2.error", "down_up", <<scale_factor>>)}
                                      ELSE {Return(i, txt, "down_up", <<scale_factor>>) :
                                                i \in cv2_resize(m, new_w, new_h)}
                                    : m \in mid }
              : algorithm1 \in firsts, algorithm2 \in lasts,
                scale_factor \in uniform(config.scale_range[1], config.scale_range[2]) }

apply_scale(img) ==
    IF img = None THEN {Raise("AttributeError", "", <<>>)}
    ELSE LET h == img.shape[1]
             w == img.shape[2]
             new_h == int(h * config.size_factor, Q)
             new_w == int(w * config.size_factor, Q)
         IN  UNION { LET txt == IF config.print_to_image THEN algorithm ELSE ""
                     IN  IF algorithm = "down_up"
                         THEN DownUp(img, h, w, new_h, new_w, txt)
                         ELSE IF algorithm \notin InterpolationMap
                         THEN {Raise("KeyError", algorithm, <<>>)}
                         ELSE IF cv2_resize(img, new_w, new_h) = {}
                         THEN {Raise("cv2.error", algorithm, <<>>)}
                         ELSE {Return(i, txt, algorithm, <<>>) :
                                   i \in cv2_resize(img, new_w, new_h)}
                   : algorithm \in Choose(config.scale_algorithms, config.scale_randomize) }

----------------------------------------------------------------------------
(* apply_compression *)

ImageCodecs == {"jpeg", "webp"}

VideoCodecs == {"h264", "hevc", "mpeg", "mpeg2"}

CompressionAlgorithms == ImageCodecs \cup VideoCodecs

\* a reshape that accepts any buffer holding at least the frame and drops the rest
ReshapesTruncating(n, height, width) == n >= height * width * 3

\* np.frombuffer(out, np.uint8).reshape([height, width, 3]) succeeds on n bytes
Reshapes(n, height, width) == n = height * width * 3

\* lines 196-204 on a decoder output of n bytes; args = <<n>>
DecodeFrame(n, height, width, alg) ==
    IF Reshapes(n, height, width)
    THEN {Return(Image(height, width, p), alg, alg, <<n>>) : p \in Samples}
    ELSE {Raise("ValueError", alg, <<n>>)}

\* cv2.imencode followed by cv2.imdecode(encimg, 1)
ImageRoundTrip(img, alg) ==
    IF img = None THEN {Raise("cv2.error", alg, <<>>)}
    ELSE {Return(i, alg, alg, <<>>) : i \in Filtered(img)}

\* the encoder argument sampled or read for a video codec (lines 155-166)
OutputArgs(alg) ==
    CASE alg = "h264" -> randint(config.h264_crf_level_range)
      [] alg = "hevc" -> randint(config.hevc_crf_level_range)
      [] OTHER -> {0}

\* the decoder emits any number of bytes up to MaxDecExtra past the frame size
DecoderOutputs(height, width) == 0..(height * width * 3 + MaxDecExtra)

apply_compression(img) ==
    UNION { CASE algorithm = "jpeg" ->
                 UNION {ImageRoundTrip(img, algorithm) :
                            quality \in randint(config.jpeg_quality_range)}
              [] algorithm = "webp" ->
                 UNION {ImageRoundTrip(img, algorithm) :
                            quality \in randint(config.webp_quality_range)}
              [] algorithm \in VideoCodecs ->
                 IF img = None THEN {Raise("AttributeError", algorithm, <<>>)}
                 ELSE UNION {DecodeFrame(n, img.shape[1], img.shape[2], algorithm) :
                                 n \in DecoderOutputs(img.shape[1], img.shape[2]),
                                 crf \in OutputArgs(algorithm)}
              [] OTHER -> {Return(img, "", algorithm, <<>>)}
          : algorithm \in Choose(config.compression_algorithms,
                                 config.compression_randomize) }

----------------------------------------------------------------------------
(* Configurations and inputs *)

\* one config.ini; the specifications below vary the entries they study
BaseConfig ==
    [ degradations_randomize |-> FALSE,
      blur_algorithms |-> <<"average">>, blur_randomize |-> FALSE,
      blur_range |-> <<1, 1>>,
      noise_algorithms |-> <<"uniform">>, noise_randomize |-> FALSE,
      noise_range |-> <<0, 0>>,
      compression_algorithms |-> <<"jpeg">>, compression_randomize |-> FALSE,
      jpeg_quality_range |-> <<1, 1>>, webp_quality_range |-> <<1, 1>>,
      h264_crf_level_range |-> <<1, 1>>, hevc_crf_level_range |-> <<1, 1>>,
      size_factor |-> Q,
      scale_algorithms |-> <<"nearest">>, down_up_scale_algorithms |-> <<"nearest">>,
      scale_randomize |-> FALSE, scale_range |-> <<1, Q>>,
      print_to_image |-> FALSE ]

\* (low, high) tuples with low <= high
Ranges(lo, hi) == {r \in (lo..hi) \X (lo..hi) : r[1] <= r[2]}

NoRet == Raise("", "", <<>>)

PipeIdle ==
    /\ degradations = <<>>
    /\ image_paths = <<>>
    /\ path_index = 0
    /\ degradation_order = <<>>
    /\ order = 0
    /\ text = Unbound
    /\ all_text = <<>>
    /\ files = <<>>
    /\ calls = <<>>

NoProcess ==
    [state |-> "none", stdin |-> 0, stdin_closed |-> FALSE, stdout |-> 0,
     consumed |-> 0, pending |-> 0, produced |-> 0, total |-> 0, need |-> 0]

BridgeIdle ==
    /\ bpc = "idle"
    /\ process1 = NoProcess
    /\ process2 = NoProcess
    /\ written = 0
    /\ captured = 0
    /\ fed = 0
    /\ out = 0

----------------------------------------------------------------------------
(* One call of one operator on a drawn image under a drawn configuration *)

InitBlur ==
    /\ config \in {[BaseConfig EXCEPT !.blur_algorithms = a, !.blur_randomize = Len(a) > 1,
                                      !.blur_range = r] :
                       a \in {<<"average">>, <<"gaussian">>, <<"isotropic">>,
                              <<"anisotropic">>, <<"gaussian", "isotropic">>, <<"median">>},
                       r \in Ranges(-BlurSpan, BlurSpan)}
    /\ image \in {Image(MaxDim, 1, 100), None}
    /\ pc = "call"
    /\ ret = NoRet
    /\ PipeIdle
    /\ BridgeIdle

CallBlur ==
    /\ pc = "call"
    /\ ret' \in apply_blur(image)
    /\ pc' = "return"
    /\ UNCHANGED <<config, image, pipeVars, bridgeVars>>

NextBlur == CallBlur

SpecBlur == InitBlur /\ [][NextBlur]_vars

InitNoise ==
    /\ config \in {[BaseConfig EXCEPT !.noise_algorithms = a, !.noise_randomize = Len(a) > 1,
                                      !.noise_range = r] :
                       a \in {<<"uniform">>, <<"gaussian">>, <<"color">>, <<"gray">>,
                              <<"uniform", "gray">>, <<"poisson">>},
                       r \in Ranges(0, NoiseSpan)}
    /\ image \in {Image(1, 1, p) : p \in Samples \cup {1, UINT8_MAX - 1}} \cup {None}
    /\ pc = "call"
    /\ ret = NoRet
    /\ PipeIdle
    /\ BridgeIdle

CallNoise ==
    /\ pc = "call"
    /\ ret' \in apply_noise(image)
    /\ pc' = "return"
    /\ UNCHANGED <<config, image, pipeVars, bridgeVars>>

NextNoise == CallNoise

SpecNoise == InitNoise /\ [][NextNoise]_vars

InitScale ==
    /\ config \in {[BaseConfig EXCEPT !.scale_algorithms = a, !.scale_randomize = z,
                                      !.down_up_scale_algorithms = d,
                                      !.size_factor = f, !.scale_range = r,
                                      !.print_to_image = z] :
                       a \in {<<"nearest">>, <<"down_up">>, <<"lanczos", "down_up">>,
                              <<"area">>},
                       d \in {<<"box", "bicubic">>, <<"bilinear", "cubic">>},
                       z \in BOOLEAN,
                       f \in 0..MaxFactor,
                       r \in Ranges(0, MaxFactor)}
    /\ image \in {Image(h, w, 100) : h \in 1..MaxDim, w \in 1..MaxDim} \cup {None}
    /\ pc = "call"
    /\ ret = NoRet
    /\ PipeIdle
    /\ BridgeIdle

CallScale ==
    /\ pc = "call"
    /\ ret' \in apply_scale(image)
    /\ pc' = "return"
    /\ UNCHANGED <<config, image, pipeVars, bridgeVars>>

NextScale == CallScale

SpecScale == InitScale /\ [][NextScale]_vars

----------------------------------------------------------------------------
(* Claims about single operators *)

Returned == pc = "return" /\ ret.exc = ""

Odd(k) == k % 2 = 1

GaussianKinds == {"gaussian", "isotropic", "anisotropic"}

\* C10 as stated: for every integer blur range with low <= high, the kernel
\* size passed to the Gaussian filter by gaussian, isotropic and anisotropic is
\* odd and at least 1 on each axis.
C10_KernelOddAndPositive ==
    (pc = "return" /\ ret.algorithm \in GaussianKinds /\ Len(ret.args) = 2)
        => \A i \in 1..2 : Odd(ret.args[i]) /\ ret.args[i] >= 1

\* C10 amended: the kernel size passed to the Gaussian filter is odd for every
\* integer blur range with low <= high, and it is at least 1 whenever the
\* range's low bound is not negative.
C10_KernelOddAndPositiveIfNonNegative ==
    (pc = "return" /\ ret.algorithm \in GaussianKinds /\ Len(ret.args) = 2)
        => \A i \in 1..2 : /\ Odd(ret.args[i])
                           /\ (config.blur_range[1] >= 0 => ret.args[i] >= 1)

C10_Witness ==
    /\ Returned
    /\ ret.algorithm = "anisotropic"
    /\ config.blur_range = <<0, BlurSpan>>
    /\ ret.args[1] = 1
    /\ ret.args[2] > 1

Clamp(v) == Max(0, Min(UINT8_MAX, v))

\* C9 as stated: under uniform and gaussian noise every output sample is
\* clamp(input + trunc(n), 0, 255) for the drawn noise value n, negative
\* values included.
C9_SaturatingSum ==
    (Returned /\ ret.algorithm \in {"uniform", "gaussian"})
        => ret.image.px = Clamp(image.px + int(ret.args[1], Q))

\* C6: when apply_scale returns, the image has height trunc(h * size_factor)
\* and width trunc(w * size_factor), for every algorithm, and for down_up
\* whatever intermediate factor was drawn.
C6_ScaleDimensions ==
    (Returned /\ image # None)
        => /\ ret.image.shape[1] = (image.shape[1] * config.size_factor) \div Q
           /\ ret.image.shape[2] = (image.shape[2] * config.size_factor) \div Q

C6_Witness ==
    /\ Returned
    /\ ret.algorithm = "down_up"
    /\ 0 < ret.args[1] /\ ret.args[1] < Q
    /\ image.shape[1] > image.shape[2]
    /\ config.size_factor > Q
    /\ ret.image.shape[1] > image.shape[1]

----------------------------------------------------------------------------
(* process_image and the batch loop *)

Kinds == {"blur", "noise", "compression", "scale"}

Implemented(kind) ==
    CASE kind = "blur" -> BlurAlgorithms
      [] kind = "noise" -> NoiseAlgorithms
      [] kind = "compression" -> CompressionAlgorithms
      [] kind = "scale" -> ScaleAlgorithms
      [] OTHER -> {}

\* random.choices(x, k=len(x)): draws with replacement
shuffle_with_replacement(x) == [1..Len(x) -> Range(x)]

\* random.shuffle(x): the orders it can leave x in
shuffle(x) == {[i \in 1..Len(x) |-> x[p[i]]] : p \in Permutations(1..Len(x))}

\* the if/elif chain of lines 259-266 for a kind that has a branch
Operator(kind, img) ==
    CASE kind = "blur" -> apply_blur(img)
      [] kind = "noise" -> apply_noise(img)
      [] kind = "compression" -> apply_compression(img)
      [] kind = "scale" -> apply_scale(img)

\* cv2.putText draws in colour (255, 0, 0): the tracked sample is left alone
\* or overwritten by a stroke
print_text_to_image(img) == {[img EXCEPT !.px = p] : p \in {img.px, 0, UINT8_MAX}}

Call(kind, img, r) == [kind |-> kind, image |-> img, result |-> r]

InitPipe ==
    /\ config \in {[BaseConfig EXCEPT !.degradations_randomize = z,
                                      !.blur_algorithms = b, !.noise_algorithms = n,
                                      !.compression_algorithms = c,
                                      !.compression_randomize = Len(c) > 1,
                                      !.scale_algorithms = s, !.print_to_image = p] :
                       z \in BOOLEAN, p \in BOOLEAN,
                       b \in {<<"average">>, <<"median">>},
                       n \in {<<"uniform">>, <<"poisson">>},
                       c \in {<<"jpeg", "h264">>, <<"av1">>},
                       s \in {<<"nearest">>, <<"area">>}}
    /\ degradations \in UNION {[1..n -> Kinds \cup {"sharpen"}] : n \in 1..MaxDegradations}
    /\ image_paths \in UNION {[1..n -> {None, Image(1, 1, 100)}] : n \in 1..MaxImages}
    /\ path_index = 0
    /\ pc = "loop"
    /\ image = None
    /\ degradation_order = <<>>
    /\ order = 0
    /\ text = Unbound
    /\ all_text = <<>>
    /\ files = <<>>
    /\ calls = <<>>
    /\ ret = NoRet
    /\ BridgeIdle

\* lines 285-286 and 252: the loop calls process_image, which reads the file
Imread ==
    /\ pc = "loop"
    /\ path_index < Len(image_paths)
    /\ path_index' = path_index + 1
    /\ image' = image_paths[path_index + 1]
    /\ text' = Unbound
    /\ calls' = <<>>
    /\ all_text' = <<>>
    /\ degradation_order' = <<>>
    /\ order' = 0
    /\ pc' = "order"
    /\ UNCHANGED <<config, degradations, image_paths, files, ret, bridgeVars>>

\* lines 254-257
Order ==
    /\ pc = "order"
    /\ degradation_order' \in (IF config.degradations_randomize
                               THEN shuffle(degradations)
                               ELSE {degradations})
    /\ all_text' = <<>>
    /\ order' = 1
    /\ pc' = "for"
    /\ UNCHANGED <<config, degradations, image_paths, path_index, image, text, files,
                   calls, ret, bridgeVars>>

\* one iteration of the loop of lines 258-267
Dispatch ==
    /\ pc = "for"
    /\ order <= Len(degradation_order)
    /\ LET degradation == degradation_order[order]
       IN  IF degradation \in Kinds
           THEN \E r \in Operator(degradation, image) :
                    /\ calls' = Append(calls, Call(degradation, image, r))
                    /\ IF r.exc # ""
                       THEN /\ pc' = "crashed"
                            /\ UNCHANGED <<image, text, all_text, order>>
                       ELSE /\ image' = r.image
                            /\ text' = r.text
                            /\ all_text' = Append(all_text, <<degradation, r.text>>)
                            /\ order' = order + 1
                            /\ pc' = "for"
           ELSE /\ IF text = Unbound
                   THEN pc' = "crashed" /\ UNCHANGED <<all_text, order>>
                   ELSE /\ all_text' = Append(all_text, <<degradation, text>>)
                        /\ order' = order + 1
                        /\ pc' = "for"
                /\ UNCHANGED <<image, text, calls>>
    /\ UNCHANGED <<config, degradations, image_paths, path_index, degradation_order,
                   files, ret, bridgeVars>>

\* lines 269-271, entered when the loop of line 258 is exhausted
Annotate ==
    /\ pc = "for"
    /\ order > Len(degradation_order)
    /\ IF config.print_to_image /\ all_text # <<>>
       THEN IF image = None
            THEN pc' = "crashed" /\ UNCHANGED image
            ELSE pc' = "write" /\ image' \in print_text_to_image(image)
       ELSE pc' = "write" /\ UNCHANGED image
    /\ UNCHANGED <<config, degradations, image_paths, path_index, degradation_order,
                   order, text, all_text, files, calls, ret, bridgeVars>>

\* lines 273-276: cv2.imwrite fails on an empty image
Write ==
    /\ pc = "write"
    /\ IF image = None
       THEN pc' = "crashed" /\ UNCHANGED files
       ELSE pc' = "loop" /\ files' = Append(files, path_index)
    /\ UNCHANGED <<config, degradations, image_paths, path_index, image,
                   degradation_order, order, text, all_text, calls, ret, bridgeVars>>

\* the loop of line 285 is exhausted
Finish ==
    /\ pc = "loop"
    /\ path_index = Len(image_paths)
    /\ pc' = "finished"
    /\ UNCHANGED <<config, degradations, image_paths, path_index, image,
                   degradation_order, order, text, all_text, files, calls, ret,
                   bridgeVars>>

NextPipe == Imread \/ Order \/ Dispatch \/ Annotate \/ Write \/ Finish

SpecPipe == InitPipe /\ [][NextPipe]_vars

----------------------------------------------------------------------------
(* Claims about process_image *)

Count(s, x) == Cardinality({i \in 1..Len(s) : s[i] = x})

OrderComputed == pc \in {"for", "write"} \/ (pc = "crashed" /\ order > 0)

\* C1: on every call the iterated order has the length and the multiset of the
\* configured list whether or not randomize is set, equals it element by
\* element when randomize is off, and no step changes the configured list.
C1_OrderIsPermutation ==
    /\ [](OrderComputed =>
            /\ Len(degradation_order) = Len(degradations)
            /\ \A k \in Range(degradations) \cup Range(degradation_order) :
                   Count(degradation_order, k) = Count(degradations, k)
            /\ (~config.degradations_randomize => degradation_order = degradations))
    /\ [][degradations' = degradations]_vars

C1_Witness ==
    /\ pc = "for"
    /\ path_index = 2
    /\ config.degradations_randomize
    /\ degradation_order # degradations

\* the call of process_image for the current file is over
CallOver == (pc \in {"loop", "finished"} /\ path_index > 0) \/ pc = "crashed"

WritesFor(i) == Count(files, i)

Raised == \E i \in 1..Len(calls) : calls[i].result.exc # ""

EveryOperatorSucceeded ==
    /\ ~Raised
    /\ Len(calls) = Cardinality({i \in 1..Len(degradation_order) :
                                     degradation_order[i] \in Kinds})

C4_DecodeErrorAtLoad ==
    /\ (pc \in {"order", "for", "write"} => image # None)
    /\ \A i \in 1..Len(calls) : calls[i].image # None
    /\ \A i \in 1..Len(files) : image_paths[files[i]] # None
    /\ (pc = "crashed" /\ image_paths[path_index] = None => path_index = Len(image_paths))

\* C5: an operator whose selected algorithm is not implemented fails; it never
\* returns, so no file is written after such a step.
C5_UnknownAlgorithmFails ==
    \A i \in 1..Len(calls) :
        (calls[i].image # None /\ calls[i].result.algorithm \notin Implemented(calls[i].kind))
            => calls[i].result.exc # ""

----------------------------------------------------------------------------
(* The video-codec path of apply_compression, statement by statement, with   *)
(* the two ffmpeg processes running beside it.  A process reads its stdin,   *)
(* writes its stdout through a blocking write, flushes at end of input and   *)
(* exits; it does not crash.  Byte strings are modelled by their lengths.    *)

Frame == image.shape[1] * image.shape[2] * 3

\* a process takes one byte from its stdin and may have output ready for it
ProcRead(p) ==
    IF p.state = "running" /\ p.pending = 0 /\ p.stdin > 0
    THEN {[p EXCEPT !.stdin = @ - 1, !.consumed = @ + 1, !.pending = g] :
              g \in IF p.consumed + 1 >= p.need THEN 0..(p.total - p.produced) ELSE {0}}
    ELSE {}

\* a process moves one byte of its pending output into its stdout pipe
ProcWrite(p) ==
    IF p.state = "running" /\ p.pending > 0 /\ p.stdout < PipeCap
    THEN {[p EXCEPT !.pending = @ - 1, !.produced = @ + 1, !.stdout = @ + 1]}
    ELSE {}

AtEOF(p) == p.state = "running" /\ p.pending = 0 /\ p.stdin = 0 /\ p.stdin_closed

\* at end of input a process emits what is left of its output
ProcFlush(p) ==
    IF AtEOF(p) /\ p.produced < p.total
    THEN {[p EXCEPT !.pending = p.total - p.produced]}
    ELSE {}

\* a process exits, which closes its stdout
ProcExit(p) ==
    IF AtEOF(p) /\ p.produced = p.total THEN {[p EXCEPT !.state = "exited"]} ELSE {}

InitBridge ==
    /\ config \in {[BaseConfig EXCEPT !.compression_algorithms = <<a>>] : a \in VideoCodecs}
    /\ image \in {Image(1, 1, 100), Image(2, 1, 100)}
    /\ pc = "call"
    /\ ret = NoRet
    /\ PipeIdle
    /\ BridgeIdle

\* lines 124-179: the algorithm is chosen and the encoder is started
Start1 ==
    /\ bpc = "idle"
    /\ \E need \in 1..Frame, total \in 0..MaxEncOut :
           process1' = [NoProcess EXCEPT !.state = "running", !.need = need,
                                         !.total = total]
    /\ bpc' = "write"
    /\ UNCHANGED <<config, image, pc, ret, pipeVars, process2, written, captured, fed, out>>

\* line 180: process1.stdin.write blocks while the pipe is full
StdinWrite ==
    /\ bpc = "write"
    /\ written < Frame
    /\ process1.stdin < PipeCap
    /\ written' = written + 1
    /\ process1' = [process1 EXCEPT !.stdin = @ + 1]
    /\ UNCHANGED <<config, image, pc, ret, pipeVars, bpc, process2, captured, fed, out>>

\* line 181
StdinClose ==
    /\ bpc = "write"
    /\ written = Frame
    /\ process1' = [process1 EXCEPT !.stdin_closed = TRUE]
    /\ bpc' = "start2"
    /\ UNCHANGED <<config, image, pc, ret, pipeVars, process2, written, captured, fed, out>>

\* lines 184-190: the decoder is started
Start2 ==
    /\ bpc = "start2"
    /\ \E total \in DecoderOutputs(image.shape[1], image.shape[2]) :
           process2' = [NoProcess EXCEPT !.state = "running", !.total = total]
    /\ bpc' = "read"
    /\ UNCHANGED <<config, image, pc, ret, pipeVars, process1, written, captured, fed, out>>

\* a read that returns as soon as the pipe is empty
ReadCompleteWhenEmpty == process1.stdout = 0

\* process1.stdout.read() returns at end of file: the pipe is drained and the
\* encoder has closed it
ReadComplete == process1.stdout = 0 /\ process1.state = "exited"

\* line 192, process1.stdout.read(): one byte is taken from the pipe
StdoutRead ==
    /\ bpc = "read"
    /\ process1.stdout > 0
    /\ process1' = [process1 EXCEPT !.stdout = @ - 1]
    /\ captured' = captured + 1
    /\ UNCHANGED <<config, image, pc, ret, pipeVars, bpc, process2, written, fed, out>>

\* line 192: read() returns and communicate(input=...) is entered
StdoutEOF ==
    /\ bpc = "read"
    /\ ReadComplete
    /\ bpc' = "communicate"
    /\ UNCHANGED <<config, image, pc, ret, pipeVars, process1, process2, written,
                   captured, fed, out>>

\* line 192, communicate: a byte of the input goes to the decoder's stdin
Feed ==
    /\ bpc = "communicate"
    /\ fed < captured
    /\ process2.stdin < PipeCap
    /\ fed' = fed + 1
    /\ process2' = [process2 EXCEPT !.stdin = @ + 1]
    /\ UNCHANGED <<config, image, pc, ret, pipeVars, bpc, process1, written, captured, out>>

\* line 192, communicate: the decoder's stdin is closed after the whole input
FeedClose ==
    /\ bpc = "communicate"
    /\ fed = captured
    /\ ~process2.stdin_closed
    /\ process2' = [process2 EXCEPT !.stdin_closed = TRUE]
    /\ UNCHANGED <<config, image, pc, ret, pipeVars, bpc, process1, written, captured,
                   fed, out>>

\* line 192, communicate: a byte of the decoder's stdout is collected
Collect ==
    /\ bpc = "communicate"
    /\ process2.stdout > 0
    /\ process2' = [process2 EXCEPT !.stdout = @ - 1]
    /\ out' = out + 1
    /\ UNCHANGED <<config, image, pc, ret, pipeVars, bpc, process1, written, captured, fed>>

\* line 192: communicate returns at end of file of the decoder's stdout, the
\* decoder having exited
CommunicateReturn ==
    /\ bpc = "communicate"
    /\ process2.stdin_closed
    /\ process2.stdout = 0
    /\ process2.state = "exited"
    /\ bpc' = "wait"
    /\ UNCHANGED <<config, image, pc, ret, pipeVars, process1, process2, written,
                   captured, fed, out>>

\* line 194
Wait ==
    /\ bpc = "wait"
    /\ process1.state = "exited"
    /\ bpc' = "reshape"
    /\ UNCHANGED <<config, image, pc, ret, pipeVars, process1, process2, written,
                   captured, fed, out>>

\* lines 196-206
Reshape ==
    /\ bpc = "reshape"
    /\ ret' \in DecodeFrame(out, image.shape[1], image.shape[2],
                            config.compression_algorithms[1])
    /\ bpc' = IF ret'.exc = "" THEN "returned" ELSE "raised"
    /\ pc' = "return"
    /\ UNCHANGED <<config, image, pipeVars, process1, process2, written, captured,
                   fed, out>>

EncRead ==
    /\ process1' \in ProcRead(process1)
    /\ UNCHANGED <<config, image, pc, ret, pipeVars, bpc, process2, written, captured,
                   fed, out>>

EncWrite ==
    /\ process1' \in ProcWrite(process1)
    /\ UNCHANGED <<config, image, pc, ret, pipeVars, bpc, process2, written, captured,
                   fed, out>>

EncFlush ==
    /\ process1' \in ProcFlush(process1)
    /\ UNCHANGED <<config, image, pc, ret, pipeVars, bpc, process2, written, captured,
                   fed, out>>

EncExit ==
    /\ process1' \in ProcExit(process1)
    /\ UNCHANGED <<config, image, pc, ret, pipeVars, bpc, process2, written, captured,
                   fed, out>>

DecRead ==
    /\ process2' \in ProcRead(process2)
    /\ UNCHANGED <<config, image, pc, ret, pipeVars, bpc, process1, written, captured,
                   fed, out>>

DecWrite ==
    /\ process2' \in ProcWrite(process2)
    /\ UNCHANGED <<config, image, pc, ret, pipeVars, bpc, process1, written, captured,
                   fed, out>>

DecFlush ==
    /\ process2' \in ProcFlush(process2)
    /\ UNCHANGED <<config, image, pc, ret, pipeVars, bpc, process1, written, captured,
                   fed, out>>

DecExit ==
    /\ process2' \in ProcExit(process2)
    /\ UNCHANGED <<config, image, pc, ret, pipeVars, bpc, process1, written, captured,
                   fed, out>>

NextBridge ==
    \/ Start1 \/ StdinWrite \/ StdinClose \/ Start2 \/ StdoutRead \/ StdoutEOF
    \/ Feed \/ FeedClose \/ Collect \/ CommunicateReturn \/ Wait \/ Reshape
    \/ EncRead \/ EncWrite \/ EncFlush \/ EncExit
    \/ DecRead \/ DecWrite \/ DecFlush \/ DecExit

SpecBridge == InitBridge /\ [][NextBridge]_vars

----------------------------------------------------------------------------
(* Claims about the video-codec path *)

\* C2: the video-codec path returns an image only when the decoder output has
\* exactly height*width*3 bytes, and then one of shape (height, width, 3); on
\* any other byte count it raises and returns no image.
C2_ExactByteCount ==
    bpc \in {"returned", "raised"} =>
        /\ (bpc = "returned" <=> out = Frame)
        /\ (bpc = "returned" => ret.exc = "" /\ ret.image.shape = image.shape)
        /\ (bpc = "raised" => ret.exc # "" /\ ret.image = None)

C2_Witness == bpc = "raised" /\ out > Frame

\* the bridge is blocked in process1.stdin.write on a full pipe
BridgeBlocked == bpc = "write" /\ written < Frame /\ process1.stdin = PipeCap

\* the encoder is blocked writing to its full stdout pipe
EncoderBlocked ==
    process1.state = "running" /\ process1.pending > 0 /\ process1.stdout = PipeCap

\* C7: the bridge and the encoder are never both blocked, the bridge writing
\* the frame and the encoder writing to a full output pipe.
C7_NeverBothBlocked == ~(BridgeBlocked /\ EncoderBlocked)

AfterClose == {"start2", "read", "communicate", "wait", "reshape", "returned", "raised"}

AfterCommunicate == {"wait", "reshape", "returned", "raised"}

\* C8: the frame is written in full before the encoder's input is closed; the
\* input is closed before the bridge reads the encoder's output; the decoder
\* has consumed all the encoder ever emits when it terminates; the decoder has
\* terminated, and its whole output is collected, before the bridge goes on;
\* the bridge waits for the encoder only after the decoder has terminated.
C8_BridgeOrdering ==
    /\ (process1.stdin_closed => written = Frame)
    /\ (bpc \in AfterClose \/ captured > 0 => process1.stdin_closed)
    /\ (process2.state = "exited" =>
            /\ process1.state = "exited"
            /\ process2.consumed = process1.produced
            /\ process1.produced = process1.total)
    /\ (bpc \in AfterCommunicate =>
            process2.state = "exited" /\ out = process2.produced)
    /\ (bpc \in {"reshape", "returned", "raised"} => process1.state = "exited")

C8_Witness ==
    /\ bpc = "returned"
    /\ process1.total = MaxEncOut
    /\ process2.consumed = MaxEncOut
    /\ Frame > PipeCap

====
